---- MODULE Spec2Model ----
(***************************************************************************)
(* The four-stage batch pipeline of main.py (DataPipeline) with its        *)
(* collaborators: DataExtractor, DataTransformer, DatabaseLoader and       *)
(* DataAnalytics.  One process invocation (main) runs either the full      *)
(* pipeline or one stage; the file system and the databases outlive it.    *)
(*                                                                         *)
(* A file or a table is a record [exists, run, origin, rows]: `run` is the  *)
(* invocation that wrote it, `origin` the invocation whose extraction its  *)
(* rows come from, `rows` its records in order.                            *)
(***************************************************************************)
EXTENDS Integers, Sequences, FiniteSets, TLC

\* Bounds of the model.
MaxRuns == 2
MaxDate == 2
MaxRows == 2

Dates == 1..MaxDate

\* run_single_stage's table of stages, in run_full_pipeline's order.
STAGES == <<"extract", "transform", "load", "analytics">>

\* argparse's choices for --stage.
Modes == {"extract", "transform", "load", "analytics", "full"}

Kinds == {"users", "posts"}

\* Where a relative path can resolve: the directory that holds main.py, or
\* the directory the process was started in when that is another one.
Roots == {"repo", "elsewhere"}

\* A string is the sequence of its runs [ch, n] of n equal characters, no two
\* adjacent runs of the same character: <<[ch |-> "a", n |-> 150]>> is 150
\* letters.  " " stands for whitespace, "a" for any other character.
Range(s) == {s[i] : i \in 1..Len(s)}

Run(c, k) == [ch |-> c, n |-> k]

Letters(k) == <<Run("a", k)>>

Blank == <<Run(" ", 1)>>

RECURSIVE StrLen(_)
StrLen(s) == IF s = << >> THEN 0 ELSE Head(s).n + StrLen(Tail(s))

\* str.strip()
Strip(s) ==
    LET front == IF s # << >> /\ Head(s).ch = " " THEN Tail(s) ELSE s
    IN  IF front # << >> /\ front[Len(front)].ch = " "
        THEN SubSeq(front, 1, Len(front) - 1) ELSE front

\* len(str.split()): the maximal runs of characters other than whitespace.
WordCount(s) ==
    Cardinality({i \in 1..Len(s) :
                    s[i].ch # " " /\ (i = 1 \/ s[i - 1].ch = " ")})

\* s[:k]
RECURSIVE Take(_, _)
Take(s, k) ==
    IF s = << >> \/ k <= 0 THEN << >>
    ELSE IF Head(s).n >= k THEN <<Run(Head(s).ch, k)>>
         ELSE <<Head(s)>> \o Take(Tail(s), k - Head(s).n)

\* A word spelled out, as one run of its k characters.
Word(w, k) == <<Run(w, k)>>

\* Adjacent runs of one character joined.
RECURSIVE Canon(_)
Canon(s) ==
    IF Len(s) < 2 THEN s
    ELSE IF s[1].ch = s[2].ch
         THEN Canon(<<Run(s[1].ch, s[1].n + s[2].n)>> \o SubSeq(s, 3, Len(s)))
         ELSE <<s[1]>> \o Canon(Tail(s))

\* str.lower(): "A" stands for an upper-case letter, "a" for a lower-case one.
Lower(s) ==
    Canon([i \in 1..Len(s) |->
              Run(IF s[i].ch = "A" THEN "a" ELSE s[i].ch, s[i].n)])

\* The values of a JSON document and the cells of a data frame: strings,
\* floats (by their text), None/NaN/NaT, timestamps, and JSON objects.
Str(s) == [type |-> "str", text |-> s]
Float(s) == [type |-> "float", text |-> s]
Timestamp(s) == [type |-> "datetime", text |-> s]
Null == [type |-> "null", text |-> << >>]
Dict(items) == [type |-> "dict", items |-> items]

\* dict.get(k, default)
Get(x, k, default) == IF k \in DOMAIN x.items THEN x.items[k] ELSE default

\* The text of a number: digits only.
Numeric(s) == s # << >> /\ \A i \in 1..Len(s) : s[i].ch = "1"

\* pd.to_numeric(errors="coerce") of one value.
to_numeric(x) ==
    IF x.type = "float" THEN x
    ELSE IF x.type = "str" /\ Numeric(x.text) THEN Float(x.text)
    ELSE Null

\* fillna("") of one cell.
fillna(x) == IF x.type = "null" THEN Str(<< >>) ELSE x

\* datetime.now().isoformat(): 26 characters.
isoformat == Word("iso", 26)

\* Bodies the API can answer with (JSON arrays of raw records).
Digits(k) == <<Run("1", k)>>

\* A user record without its address and company blocks.
Person(id) ==
    [id |-> id,
     username |-> Str(Letters(4)),
     name |-> Str(<<Run("A", 1), Run("a", 5), Run(" ", 1), Run("A", 1),
                    Run("a", 6)>>),
     email |-> Str(<<Run("A", 1), Run("a", 6), Run("@", 1), Run("a", 5),
                     Run(".", 1), Run("a", 3)>>),
     phone |-> Str(Digits(10)),
     website |-> Str(<<Run("a", 8), Run(".", 1), Run("a", 3)>>)]

FullGeo == Dict([lat |-> Str(Digits(3)), lng |-> Str(Digits(4))])

FullCompany ==
    Dict([name |-> Str(Letters(12)), catchPhrase |-> Str(Letters(30))])

FullUser(id) ==
    Person(id) @@
    [address |-> Dict([city |-> Str(Letters(9)), zipcode |-> Str(Digits(5)),
                       geo |-> FullGeo]),
     company |-> FullCompany]

UsersResponses == {<< >>, <<FullUser(1), FullUser(2)>>}

PostsResponses ==
    {<< >>,
     <<[id |-> 1, userId |-> 2, title |-> Str(Letters(5)),
        body |-> Str(Letters(150) \o Blank)],
       [id |-> 2, userId |-> 2, title |-> Str(Blank \o Letters(5)),
        body |-> Str(Letters(100) \o Blank \o Letters(100))]>>}

NoFile == [exists |-> FALSE, run |-> 0, origin |-> 0, rows |-> << >>]

File(r, o, rows) == [exists |-> TRUE, run |-> r, origin |-> o, rows |-> rows]

Paths == Roots \X Dates \X Kinds

VARIABLES
    today,             \* datetime.now().strftime("%Y-%m-%d")
    cwd,               \* the working directory of the running process
    run,               \* number of invocations of main so far
    mode,              \* args.stage of the running invocation
    pc,                \* the call in progress, "exit" when main has ended
    raw,               \* data/raw/<date>/<kind>.json under each root
    processed,         \* data/processed/<date>/<kind>.parquet under each root
    db,                \* local.db under each root: its users and posts tables
    results,           \* the local `results` of the stage in progress
    pipeline_results,  \* run_full_pipeline's record
    raised,            \* the exception main caught, "none" when there is none
    log,               \* the stage banners logged by this invocation
    requests,          \* the GET requests of this invocation, with their outcome
    reads,             \* the snapshot files this invocation looked up
    report,            \* generate_report's report["analytics"]
    lastLoad,          \* per table, the snapshot its latest load committed and
                       \* how many loads in a row committed these rows
    call,              \* the latest direct call of a component method
    ret                \* what that call returned or raised

vars == <<today, cwd, run, mode, pc, raw, processed, db, results,
          pipeline_results, raised, log, requests, reads, report, lastLoad,
          call, ret>>

\* The variables of the pipeline run, and those of a direct call.
pipeline == <<cwd, run, mode, pc, results, pipeline_results, raised, log,
              requests, reads, report, lastLoad>>

direct == <<call, ret>>

NoCall == [fn |-> "none"]

Empty == << >>

----------------------------------------------------------------------------
\* Path resolution of the four components (relative data_dir and db_path).

ExtractorRoot == "repo"

TransformerRoot(dir) == dir

LoaderRoot == "repo"

AnalyticsRoot(dir) == dir

----------------------------------------------------------------------------
\* The orchestrator.

StageIndex(stage) == CHOOSE i \in 1..Len(STAGES) : STAGES[i] = stage

FirstStep(stage) ==
    CASE stage = "extract" -> "extract_users"
      [] stage = "transform" -> "transform_users"
      [] stage = "load" -> "load_users"
      [] stage = "analytics" -> "analytics"

\* A dispatch that skips the stage after extract.
NextStageSkipping(stage) ==
    IF stage = "extract" THEN "load" ELSE STAGES[StageIndex(stage) + 1]

NextStage(stage) == STAGES[StageIndex(stage) + 1]

Summary(ok) ==
    "end_time" :> today
    @@ "duration_seconds" :> (today - pipeline_results.start_time)
    @@ "success" :> ok

\* A handler that re-raises without completing the record.
PropagateUnrecorded(e) ==
    /\ raised' = e
    /\ pc' = "exit"
    /\ UNCHANGED pipeline_results

\* An exception leaves the stage method in progress.
Propagate(e) ==
    /\ raised' = e
    /\ pc' = "exit"
    /\ pipeline_results' =
           IF mode = "full"
           THEN Summary(FALSE) @@ "error" :> e @@ pipeline_results
           ELSE pipeline_results

\* The stage method in progress returns res.
Return(stage, res) ==
    /\ UNCHANGED raised
    /\ IF mode = "full"
       THEN LET stored == [pipeline_results EXCEPT
                               !.stages = (stage :> res) @@ @]
            IN  IF stage = "analytics"
                THEN /\ pipeline_results' = Summary(TRUE) @@ stored
                     /\ pc' = "exit"
                ELSE /\ pipeline_results' = stored
                     /\ pc' = FirstStep(NextStage(stage))
       ELSE /\ pc' = "exit"
            /\ UNCHANGED pipeline_results

Main(m, dir) ==
    /\ pc = "exit"
    /\ run < MaxRuns
    /\ run' = run + 1
    /\ mode' = m
    /\ cwd' = dir
    /\ pc' = FirstStep(IF m = "full" THEN "extract" ELSE m)
    /\ pipeline_results' =
           IF m = "full" THEN [start_time |-> today, stages |-> Empty]
           ELSE Empty
    /\ raised' = "none"
    /\ results' = Empty
    /\ log' = Empty
    /\ requests' = Empty
    /\ reads' = Empty
    /\ report' = Empty
    /\ UNCHANGED <<today, raw, processed, db, lastLoad, direct>>

\* Midnight passes.
Tick ==
    /\ today < MaxDate
    /\ today' = today + 1
    /\ UNCHANGED <<cwd, run, mode, pc, raw, processed, db, results,
                   pipeline_results, raised, log, requests, reads, report,
                   lastLoad, direct>>

----------------------------------------------------------------------------
\* Extract.

Endpoint(kind) == IF kind = "users" THEN "/users" ELSE "/posts"

Endpoint2Kind(endpoint) == IF endpoint = "/users" THEN "users" ELSE "posts"

\* An extractor that requests the endpoint a second time when the first
\* request fails.
extract_and_save_retrying(files, kind, body, fetchOk, saveOk) ==
    [requests |-> IF fetchOk
                  THEN <<[endpoint |-> Endpoint(kind), ok |-> TRUE]>>
                  ELSE <<[endpoint |-> Endpoint(kind), ok |-> FALSE],
                         [endpoint |-> Endpoint(kind), ok |-> TRUE]>>,
     exc |-> IF ~saveOk THEN "OSError" ELSE "none",
     raw |-> IF saveOk
             THEN [files EXCEPT ![<<ExtractorRoot, today, kind>>] =
                                     File(run, run, body)]
             ELSE files]

\* fetch_data then save_raw_data: the requests made, the exception raised
\* and the raw files afterwards.
extract_and_save(files, kind, body, fetchOk, saveOk) ==
    [requests |-> <<[endpoint |-> Endpoint(kind), ok |-> fetchOk]>>,
     exc |-> IF ~fetchOk THEN "RequestException"
             ELSE IF ~saveOk THEN "OSError" ELSE "none",
     raw |-> IF fetchOk /\ saveOk
             THEN [files EXCEPT ![<<ExtractorRoot, today, kind>>] =
                                     File(run, run, body)]
             ELSE files]

Banner(stage, first) == IF first THEN Append(log, stage) ELSE log

ExtractKind(kind, body, fetchOk, saveOk) ==
    LET r == extract_and_save(raw, kind, body, fetchOk, saveOk)
        res == (kind :> [success |-> TRUE, count |-> Len(body)]) @@ results
    IN  /\ log' = Banner("extract", kind = "users")
        /\ requests' = requests \o r.requests
        /\ raw' = r.raw
        /\ IF r.exc # "none"
           THEN /\ results' = ("error" :> r.exc) @@ results
                /\ Propagate(r.exc)
           ELSE /\ results' = res
                /\ IF kind = "users"
                   THEN /\ pc' = "extract_posts"
                        /\ UNCHANGED <<raised, pipeline_results>>
                   ELSE Return("extract", res)
        /\ UNCHANGED <<today, cwd, run, mode, processed, db, reads, report,
                       lastLoad, direct>>

RunExtractUsers ==
    /\ pc = "extract_users"
    /\ \E body \in UsersResponses, fetchOk \in BOOLEAN, saveOk \in BOOLEAN :
           ExtractKind("users", body, fetchOk, saveOk)

RunExtractPosts ==
    /\ pc = "extract_posts"
    /\ \E body \in PostsResponses, fetchOk \in BOOLEAN, saveOk \in BOOLEAN :
           ExtractKind("posts", body, fetchOk, saveOk)

----------------------------------------------------------------------------
\* Transform.

\* df[col] of a frame built from the records: the column is there when some
\* record has the key, and indexing a column that is not raises KeyError.
ColumnMissing(records, col) ==
    \A i \in 1..Len(records) : col \notin DOMAIN records[i]

\* The value of a record's key in the frame built from the records: NaN
\* where the record has not the key.
Col(rec, key) == IF key \in DOMAIN rec THEN rec[key] ELSE Null

\* x.get("geo", {}) of an address
Geo(address) == Get(address, "geo", Dict(<< >>))

\* x.get("geo", {}).get(key, None) if isinstance(x, dict) else None
Coordinate(address, key) ==
    IF address.type = "dict" THEN Get(Geo(address), key, Null) ELSE Null

\* x.get(key, "") if isinstance(x, dict) else ""
Field(block, key) ==
    IF block.type = "dict" THEN Get(block, key, Str(<< >>)) ELSE Str(<< >>)

\* str.split("@").str[1]: what stands between the first "@" and the next,
\* NaN when there is no "@".
email_domain(email) ==
    LET s == email.text
        ats == {i \in 1..Len(s) : s[i].ch = "@"}
        first == CHOOSE i \in ats : \A j \in ats : i <= j
        later == {i \in ats : i > first}
        stop == IF later = {} THEN Len(s) + 1
                ELSE CHOOSE i \in later : \A j \in later : i <= j
    IN  IF ats = {} THEN Null
        ELSE IF s[first].n > 1 THEN Str(<< >>)
        ELSE Str(SubSeq(s, first + 1, stop - 1))

\* The exception transform_users_data raises on the records, "none" when
\* it returns: KeyError for a column no record has, AttributeError for
\* .get on a "geo" that is not an object.
transform_users_exc(users_data) ==
    IF \E col \in {"id", "username", "name", "email", "phone", "website",
                    "address"} : ColumnMissing(users_data, col)
    THEN "KeyError"
    ELSE IF \E i \in 1..Len(users_data) :
                LET address == Col(users_data[i], "address")
                IN  address.type = "dict" /\ Geo(address).type # "dict"
    THEN "AttributeError"
    ELSE IF ColumnMissing(users_data, "company") THEN "KeyError"
    ELSE "none"

transform_users_raises(users_data) == transform_users_exc(users_data) # "none"

transform_users_data(users_data) ==
    [i \in 1..Len(users_data) |->
        LET rec == users_data[i]
            address == Col(rec, "address")
            company == Col(rec, "company")
            email == Str(Lower(rec.email.text))
            lat == to_numeric(Coordinate(address, "lat"))
            lng == to_numeric(Coordinate(address, "lng"))
        IN  [user_id |-> rec.id,
             username |-> fillna(Col(rec, "username")),
             name |-> fillna(Col(rec, "name")),
             email |-> email,
             phone |-> fillna(Col(rec, "phone")),
             website |-> fillna(Col(rec, "website")),
             city |-> fillna(Field(address, "city")),
             zipcode |-> fillna(Field(address, "zipcode")),
             lat |-> fillna(lat),
             lng |-> fillna(lng),
             company_name |-> fillna(Field(company, "name")),
             company_catchphrase |-> fillna(Field(company, "catchPhrase")),
             email_domain |-> fillna(email_domain(email)),
             has_coordinates |-> ~(lat.type = "null" \/ lng.type = "null"),
             created_at |-> Str(isoformat)]]

\* The bin edges of pd.cut in transform_posts_data.
BinShort == 100
BinMedium == 200

\* pd.cut(body_length, bins=[0, 100, 200, inf], labels=["short", "medium",
\* "long"]).astype(str): the bins are open on the left and closed on the
\* right, and a length in no bin is NaN, "nan" as a string.
post_category(body_length) ==
    IF 0 < body_length /\ body_length <= BinShort THEN Str(Word("short", 5))
    ELSE IF BinShort < body_length /\ body_length <= BinMedium
         THEN Str(Word("medium", 6))
    ELSE IF BinMedium < body_length THEN Str(Word("long", 4))
    ELSE Str(Word("nan", 3))

transform_posts_raises(posts_data) ==
    \E col \in {"id", "userId", "title", "body"} :
        ColumnMissing(posts_data, col)

transform_posts_data(posts_data) ==
    [i \in 1..Len(posts_data) |->
        LET title == Strip(posts_data[i].title.text)
            body == Strip(posts_data[i].body.text)
        IN  [post_id |-> posts_data[i].id,
             user_id |-> posts_data[i].userId,
             title |-> Str(title),
             body |-> Str(body),
             title_length |-> StrLen(title),
             body_length |-> StrLen(body),
             word_count |-> WordCount(body),
             created_at |-> Str(isoformat),
             post_category |-> post_category(StrLen(body))]]

\* pa.Table.from_pandas refuses a column that holds floats and strings.
MixedColumn(df, col) ==
    /\ \E i \in 1..Len(df) : df[i][col].type = "float"
    /\ \E i \in 1..Len(df) : df[i][col].type = "str"

\* The exception of the steps of process_data, "none" when it returns:
\* load_raw_data, the transformation and save_to_parquet, in this order.
process_data_exc(src, data_type, saveOk) ==
    IF ~src.exists THEN "FileNotFoundError"
    ELSE IF data_type = "users"
         THEN IF transform_users_raises(src.rows)
              THEN transform_users_exc(src.rows)
              ELSE IF \E col \in {"lat", "lng"} :
                         MixedColumn(transform_users_data(src.rows), col)
                   THEN "ArrowException"
              ELSE IF ~saveOk THEN "OSError" ELSE "none"
    ELSE IF data_type = "posts"
         THEN IF transform_posts_raises(src.rows) THEN "KeyError"
              ELSE IF ~saveOk THEN "OSError" ELSE "none"
    ELSE "ValueError"

\* A data type that is not "users" handled as posts.
process_data_lenient(rawFiles, procFiles, root, kind, data_type, readDate, writeDate, saveOk) ==
    LET src == rawFiles[<<root, readDate, kind>>]
        type == IF data_type = "users" THEN "users" ELSE "posts"
        exc == process_data_exc(src, type, saveOk)
        df == IF type = "users" THEN transform_users_data(src.rows)
              ELSE transform_posts_data(src.rows)
    IN  [read |-> [area |-> "raw", path |-> <<root, readDate, kind>>,
                   file |-> src],
         exc |-> exc,
         df |-> IF exc = "none" THEN df ELSE << >>,
         processed |-> IF exc = "none"
                       THEN [procFiles EXCEPT ![<<root, writeDate, kind>>] =
                                                  File(run, src.origin, df)]
                       ELSE procFiles]

\* load_raw_data, the transformation of data_type and save_to_parquet.
\* readDate and writeDate are the dates the two steps see; kind names the
\* raw file and the processed file.
process_data(rawFiles, procFiles, root, kind, data_type, readDate, writeDate, saveOk) ==
    LET src == rawFiles[<<root, readDate, kind>>]
        exc == process_data_exc(src, data_type, saveOk)
        df == IF data_type = "users" THEN transform_users_data(src.rows)
              ELSE transform_posts_data(src.rows)
    IN  [read |-> [area |-> "raw", path |-> <<root, readDate, kind>>,
                   file |-> src],
         exc |-> exc,
         df |-> IF exc = "none" THEN df ELSE << >>,
         processed |-> IF exc = "none"
                       THEN [procFiles EXCEPT ![<<root, writeDate, kind>>] =
                                                  File(run, src.origin, df)]
                       ELSE procFiles]

TransformKind(kind, writeDate, saveOk) ==
    LET r == process_data(raw, processed, TransformerRoot(cwd), kind, kind,
                          today, writeDate, saveOk)
        res == (kind :> [success |-> TRUE, count |-> Len(r.df)]) @@ results
    IN  /\ log' = Banner("transform", kind = "users")
        /\ reads' = Append(reads, r.read)
        /\ processed' = r.processed
        /\ today' = IF r.exc \in {"none", "OSError", "ArrowException"}
                    THEN writeDate ELSE today
        /\ IF r.exc # "none"
           THEN /\ results' = ("error" :> r.exc) @@ results
                /\ Propagate(r.exc)
           ELSE /\ results' = res
                /\ IF kind = "users"
                   THEN /\ pc' = "transform_posts"
                        /\ UNCHANGED <<raised, pipeline_results>>
                   ELSE Return("transform", res)
        /\ UNCHANGED <<cwd, run, mode, raw, db, requests, report, lastLoad,
                       direct>>

\* The dates save_to_parquet can see when load_raw_data saw `today`.
WriteDates == {d \in Dates : d = today \/ d = today + 1}

RunTransformUsers ==
    /\ pc = "transform_users"
    /\ \E writeDate \in WriteDates, saveOk \in BOOLEAN :
           TransformKind("users", writeDate, saveOk)

RunTransformPosts ==
    /\ pc = "transform_posts"
    /\ \E writeDate \in WriteDates, saveOk \in BOOLEAN :
           TransformKind("posts", writeDate, saveOk)

----------------------------------------------------------------------------
\* Load.

\* Base.metadata.create_all: a missing table is created empty.
create_tables(database) ==
    [t \in DOMAIN database |->
        IF t[1] = LoaderRoot /\ ~database[t].exists
        THEN File(run, 0, << >>) ELSE database[t]]

LENGTH_RULES ==
    [users |-> [username |-> 100, name |-> 200, email |-> 200, phone |-> 50,
                website |-> 200, city |-> 100, zipcode |-> 20,
                company_name |-> 200, email_domain |-> 100],
     posts |-> [title |-> 500, post_category |-> 20]]

\* The lengths a table type declares for its columns.
Rules(table_type) ==
    IF table_type \in DOMAIN LENGTH_RULES THEN LENGTH_RULES[table_type]
    ELSE << >>

\* pd.to_datetime(errors="coerce") of one cell: a text that is no timestamp
\* becomes NaT.
to_datetime(x) ==
    IF x.type = "datetime" THEN x
    ELSE IF x.type = "str" /\ Len(x.text) = 1 /\ x.text[1].ch = "iso"
         THEN Timestamp(x.text)
    ELSE Null

\* pd.api.types.is_string_dtype of a column of an object frame.  strict is
\* the pandas build that inspects the values (all of them strings); the
\* older build accepts every column of dtype object.
is_string_dtype(df, col, strict) ==
    IF strict THEN \A i \in 1..Len(df) : df[i][col].type = "str"
    ELSE \/ \E i \in 1..Len(df) : df[i][col].type = "str"
         \/ \A i \in 1..Len(df) : df[i][col].type = "null"

\* astype(str) of one cell.
astype_str(x) == IF x.type = "null" THEN Str(Word("None", 4)) ELSE Str(x.text)

\* str[:max_len - 1] in place of str[:max_len].
clean_dataframe_for_db_short(df, table_type, strict) ==
    [i \in 1..Len(df) |->
        [col \in DOMAIN df[i] |->
            IF col = "created_at" THEN to_datetime(df[i][col])
            ELSE IF col \in DOMAIN Rules(table_type)
                    /\ is_string_dtype(df, col, strict)
                 THEN Str(Take(astype_str(df[i][col]).text,
                               Rules(table_type)[col] - 1))
            ELSE df[i][col]]]

\* created_at parsed, then the string columns of LENGTH_RULES cut to their
\* limit.
clean_dataframe_for_db(df, table_type, strict) ==
    [i \in 1..Len(df) |->
        [col \in DOMAIN df[i] |->
            IF col = "created_at" THEN to_datetime(df[i][col])
            ELSE IF col \in DOMAIN Rules(table_type)
                    /\ is_string_dtype(df, col, strict)
                 THEN Str(Take(astype_str(df[i][col]).text,
                               Rules(table_type)[col]))
            ELSE df[i][col]]]

\* if_exists="append" in place of "replace".
load_to_database_append(table, snapshot, df) ==
    File(run, snapshot.origin, table.rows \o df)

\* df.to_sql(table_name, engine, if_exists="replace", index=False)
load_to_database(table, snapshot, df) ==
    File(run, snapshot.origin, df)

\* SELECT COUNT(*) FROM table_name
verify_data_load(database, table_name) ==
    [table |-> table_name, count |-> Len(database[<<LoaderRoot, table_name>>].rows)]

\* A handler that reports the zero count without the error.
ErrorEntrySilent(table_name, e) ==
    [table |-> table_name, count |-> 0]

ErrorEntry(table_name, e) ==
    [table |-> table_name, count |-> 0, error |-> e]

\* A handler of the missing file that empties the table.
LoadBlockClearing(database, kind, outcome, strict) ==
    LET path == <<LoaderRoot, today, kind>>
        src == processed[path]
        t == <<LoaderRoot, kind>>
        df == clean_dataframe_for_db(src.rows, kind, strict)
        written == [database EXCEPT ![t] = load_to_database(@, src, df)]
    IN  [read |-> [area |-> "processed", path |-> path, file |-> src],
         db |-> IF outcome = "unchanged" /\ src.exists THEN database
                ELSE IF outcome = "dropped" /\ src.exists
                     THEN [database EXCEPT ![t] = NoFile]
                     ELSE written,
         entry |-> IF ~src.exists THEN ErrorEntry(kind, "FileNotFoundError")
                   ELSE IF outcome # "ok"
                        THEN ErrorEntry(kind, "OperationalError")
                        ELSE verify_data_load(written, kind),
         loaded |-> src.exists /\ outcome = "ok"]

\* One try block of load_all_data.  outcome is what the write to the store
\* does: "ok", or a failure that leaves the table as it was or dropped.
LoadBlock(database, kind, outcome, strict) ==
    LET path == <<LoaderRoot, today, kind>>
        src == processed[path]
        t == <<LoaderRoot, kind>>
        df == clean_dataframe_for_db(src.rows, kind, strict)
        written == [database EXCEPT ![t] = load_to_database(@, src, df)]
    IN  [read |-> [area |-> "processed", path |-> path, file |-> src],
         db |-> IF ~src.exists \/ outcome = "unchanged" THEN database
                ELSE IF outcome = "dropped"
                     THEN [database EXCEPT ![t] = NoFile]
                     ELSE written,
         entry |-> IF ~src.exists THEN ErrorEntry(kind, "FileNotFoundError")
                   ELSE IF outcome # "ok"
                        THEN ErrorEntry(kind, "OperationalError")
                        ELSE verify_data_load(written, kind),
         loaded |-> src.exists /\ outcome = "ok"]

NoLoad == [snapshot |-> NoFile, times |-> 0]

WriteOutcomes == {"ok", "unchanged", "dropped"}

LoadKind(kind, outcome, strict) ==
    LET r == LoadBlock(IF kind = "users" THEN create_tables(db) ELSE db,
                       kind, outcome, strict)
        res == (kind :> r.entry) @@ results
    IN  /\ log' = Banner("load", kind = "users")
        /\ reads' = Append(reads, r.read)
        /\ db' = r.db
        /\ lastLoad' = [lastLoad EXCEPT ![kind] =
               IF ~r.loaded THEN NoLoad
               ELSE [snapshot |-> r.read.file,
                     times |-> IF @.times > 0 /\ @.snapshot.rows = r.read.file.rows
                               THEN 2 ELSE 1]]
        /\ results' = res
        /\ IF kind = "users"
           THEN /\ pc' = "load_posts"
                /\ UNCHANGED <<raised, pipeline_results>>
           ELSE Return("load", res)
        /\ UNCHANGED <<today, cwd, run, mode, raw, processed, requests,
                       report, direct>>

RunLoadUsers ==
    /\ pc = "load_users"
    /\ \E outcome \in WriteOutcomes, strict \in BOOLEAN :
           LoadKind("users", outcome, strict)

RunLoadPosts ==
    /\ pc = "load_posts"
    /\ \E outcome \in WriteOutcomes, strict \in BOOLEAN :
           LoadKind("posts", outcome, strict)

----------------------------------------------------------------------------
\* Analytics.

QueryNames == <<"user_statistics", "post_statistics", "user_post_activity">>

\* The tables a query reads.
QueryTables(name) ==
    CASE name = "user_statistics" -> {"users"}
      [] name = "post_statistics" -> {"posts"}
      [] name = "user_post_activity" -> {"users", "posts"}

Table(database, root, kind) == database[<<root, kind>>]

user_statistics(users) == <<[total_users |-> Len(users)]>>

post_statistics(posts) ==
    <<[total_posts |-> Len(posts),
       unique_authors |-> Cardinality({posts[i].user_id : i \in 1..Len(posts)})]>>

\* The value of an aggregate: NULL over no rows.
Agg(v) == [null |-> FALSE, v |-> v]
NullAgg == [null |-> TRUE, v |-> 0]

RECURSIVE Sum(_)
Sum(s) == IF s = << >> THEN 0 ELSE Head(s) + Sum(Tail(s))

\* AVG as the sum and the number of the values it divides.
Avg(s) == IF s = << >> THEN NullAgg ELSE Agg([sum |-> Sum(s), n |-> Len(s)])

Max(s) ==
    IF s = << >> THEN NullAgg
    ELSE Agg(CHOOSE m \in Range(s) : \A x \in Range(s) : x <= m)

\* The columns user_post_activity groups by.
GroupKey(u) ==
    [user_id |-> u.user_id, username |-> u.username, name |-> u.name,
     email_domain |-> u.email_domain]

\* The rows of users LEFT JOIN posts ON u.user_id = p.user_id of one group:
\* the matching posts, once for every user row of the group.
RECURSIVE Joined(_, _, _)
Joined(users, posts, key) ==
    IF users = << >> THEN << >>
    ELSE (IF GroupKey(Head(users)) = key
          THEN SelectSeq(posts, LAMBDA p : p.user_id = key.user_id)
          ELSE << >>) \o Joined(Tail(users), posts, key)

\* An inner join: the users without a post fall out.
ActivityGroupsInner(users, posts) ==
    {[user_id |-> key.user_id, username |-> key.username, name |-> key.name,
      email_domain |-> key.email_domain,
      post_count |-> Len(Joined(users, posts, key)),
      avg_post_length |->
          Avg([i \in 1..Len(Joined(users, posts, key)) |->
                  Joined(users, posts, key)[i].word_count]),
      max_post_length |->
          Max([i \in 1..Len(Joined(users, posts, key)) |->
                  Joined(users, posts, key)[i].body_length])]
       : key \in {k \in {GroupKey(users[i]) : i \in 1..Len(users)} :
                     Joined(users, posts, k) # << >>}}

\* users LEFT JOIN posts GROUP BY the user's columns: one group for every
\* distinct value of them, COUNT(p.post_id) counting the joined rows that
\* have a post, AVG and MAX over those rows.
ActivityGroups(users, posts) ==
    {[user_id |-> key.user_id, username |-> key.username, name |-> key.name,
      email_domain |-> key.email_domain,
      post_count |-> Len(Joined(users, posts, key)),
      avg_post_length |->
          Avg([i \in 1..Len(Joined(users, posts, key)) |->
                  Joined(users, posts, key)[i].word_count]),
      max_post_length |->
          Max([i \in 1..Len(Joined(users, posts, key)) |->
                  Joined(users, posts, key)[i].body_length])]
       : key \in {GroupKey(users[i]) : i \in 1..Len(users)}}

\* ORDER BY post_count DESC: every order of the groups the engine may
\* return (the order of equal counts is the engine's).
user_post_activity(users, posts) ==
    LET groups == ActivityGroups(users, posts)
        n == Cardinality(groups)
    IN  {s \in [1..n -> groups] :
            /\ \A i, j \in 1..n : i # j => s[i] # s[j]
            /\ \A i \in 1..n - 1 : s[i].post_count >= s[i + 1].post_count}

\* The frames execute_query may return for a query over the database.
QueryResults(name, database, root) ==
    LET users == Table(database, root, "users").rows
        posts == Table(database, root, "posts").rows
    IN  CASE name = "user_statistics" -> {user_statistics(users)}
          [] name = "post_statistics" -> {post_statistics(posts)}
          [] name = "user_post_activity" -> user_post_activity(users, posts)

\* execute_query raises when a table it reads is missing or the engine fails.
QueryFails(name, database, root, broken) ==
    \/ name \in broken
    \/ \E k \in QueryTables(name) : ~Table(database, root, k).exists

\* A loop without the per-query handler: the first failing query ends it.
generate_report_aborting(database, root, broken, frames) ==
    LET failing == {i \in 1..Len(QueryNames) :
                       QueryFails(QueryNames[i], database, root, broken)}
        done == {i \in 1..Len(QueryNames) : \A j \in failing : i < j}
    IN  [name \in {QueryNames[i] : i \in done} |->
            [data |-> frames[name], record_count |-> Len(frames[name])]]

\* The loop of generate_report; frames[name] is what the query returns when
\* it does not fail.
generate_report(database, root, broken, frames) ==
    [name \in {QueryNames[i] : i \in 1..Len(QueryNames)} |->
        IF QueryFails(name, database, root, broken)
        THEN [error |-> "OperationalError", data |-> << >>, record_count |-> 0]
        ELSE [data |-> frames[name], record_count |-> Len(frames[name])]]

\* save_csv_reports: one file per entry that holds data.
CsvFiles(rep) == {name \in DOMAIN rep : Len(rep[name].data) > 0}

RunAnalytics ==
    /\ pc = "analytics"
    /\ \E broken \in SUBSET {QueryNames[i] : i \in 1..Len(QueryNames)},
          activity \in user_post_activity(
                           Table(db, AnalyticsRoot(cwd), "users").rows,
                           Table(db, AnalyticsRoot(cwd), "posts").rows),
          saveOk \in BOOLEAN :
          LET root == AnalyticsRoot(cwd)
              frames ==
                  [name \in {QueryNames[i] : i \in 1..Len(QueryNames)} |->
                      IF name = "user_post_activity" THEN activity
                      ELSE CHOOSE f \in QueryResults(name, db, root) : TRUE]
              rep == generate_report(db, root, broken, frames)
              res == [queries_executed |-> QueryNames,
                      total_csv_files |-> Cardinality(CsvFiles(rep))]
          IN  /\ log' = Banner("analytics", TRUE)
              /\ report' = rep
              /\ IF saveOk
                 THEN results' = res /\ Return("analytics", res)
                 ELSE UNCHANGED results /\ Propagate("OSError")
    /\ UNCHANGED <<today, cwd, run, mode, raw, processed, db, requests,
                   reads, lastLoad, direct>>

----------------------------------------------------------------------------
Init ==
    /\ today \in Dates
    /\ cwd = "repo"
    /\ run = 0
    /\ mode = "full"
    /\ pc = "exit"
    /\ raw = [p \in Paths |-> NoFile]
    /\ processed = [p \in Paths |-> NoFile]
    /\ db = [t \in Roots \X Kinds |-> NoFile]
    /\ results = Empty
    /\ pipeline_results = Empty
    /\ raised = "none"
    /\ log = Empty
    /\ requests = Empty
    /\ reads = Empty
    /\ report = Empty
    /\ lastLoad = [k \in Kinds |-> NoLoad]
    /\ call = NoCall
    /\ ret = Empty

Next ==
    \/ \E m \in Modes, dir \in Roots : Main(m, dir)
    \/ Tick
    \/ RunExtractUsers
    \/ RunExtractPosts
    \/ RunTransformUsers
    \/ RunTransformPosts
    \/ RunLoadUsers
    \/ RunLoadPosts
    \/ RunAnalytics

Spec == Init /\ [][Next]_vars

----------------------------------------------------------------------------
\* Direct calls of the components' methods, on arguments of bounded size:
\* one call in a behaviour, since no call depends on an earlier one.

SeqsUpTo(S, n) == UNION {[1..k -> S] : k \in 0..n}

\* Lengths on both sides of the bin edges.
BodyLengths == {1, BinShort, BinShort + 1, BinMedium, BinMedium + 1}

Bodies ==
    {<< >>, Blank}
    \union {Letters(n) : n \in BodyLengths}
    \union {Blank \o Letters(n) \o Blank : n \in BodyLengths}
    \union {Letters(n) \o Blank \o Letters(m) : n, m \in {1, BinShort}}

\* A key a JSON object has not.
Absent == [type |-> "absent", text |-> << >>]

With(key, v) == IF v.type = "absent" THEN << >> ELSE key :> v

Geos ==
    {Absent, Null, Dict(<< >>), FullGeo,
     Dict([lat |-> Str(Digits(3))]),
     Dict([lng |-> Str(Digits(4))]),
     Dict([lat |-> Str(Letters(1)), lng |-> Str(Digits(4))])}

Addresses ==
    {Absent, Null, Dict(<< >>), Dict([geo |-> FullGeo])}
    \union {Dict([city |-> Str(Letters(9)), zipcode |-> Str(Digits(5))]
                 @@ With("geo", g)) : g \in Geos}

Companies == {Absent, Null, Dict(<< >>), FullCompany}

RawUsers ==
    {Person(1) @@ With("address", a) @@ With("company", c) :
        a \in Addresses, c \in Companies}

RawPosts ==
    {[id |-> 1, userId |-> 1, title |-> Str(Blank \o Letters(5)),
      body |-> Str(b)] : b \in Bodies}

Raised(e) == [exc |-> e, value |-> Empty]

Returned(v) == [exc |-> "none", value |-> v]

CallTransformPosts ==
    /\ call = NoCall
    /\ \E posts_data \in SeqsUpTo(RawPosts, MaxRows) :
           /\ call' = [fn |-> "transform_posts_data", arg |-> posts_data]
           /\ ret' = IF transform_posts_raises(posts_data)
                     THEN Raised("KeyError")
                     ELSE Returned(transform_posts_data(posts_data))
           /\ UNCHANGED <<today, raw, processed, db, pipeline>>

CallTransformUsers ==
    /\ call = NoCall
    /\ \E users_data \in SeqsUpTo(RawUsers, MaxRows) :
           /\ call' = [fn |-> "transform_users_data", arg |-> users_data]
           /\ ret' = IF transform_users_raises(users_data)
                     THEN Raised(transform_users_exc(users_data))
                     ELSE Returned(transform_users_data(users_data))
           /\ UNCHANGED <<today, raw, processed, db, pipeline>>

\* Frames with a column of either table type, a column no table type
\* limits and a created_at.
Titles ==
    {Str(<< >>), Str(Letters(500)), Str(Letters(501)),
     Str(Letters(300) \o Blank \o Letters(300)), Null}

Frames ==
    {[post_id |-> 1, title |-> t, body |-> Str(Letters(501)), zipcode |-> z,
      created_at |-> c] :
        t \in Titles,
        z \in {Str(Digits(5)), Str(Digits(21))},
        c \in {Str(isoformat), Str(Letters(3)), Null}}

CallClean ==
    /\ call = NoCall
    /\ \E df \in SeqsUpTo(Frames, MaxRows), strict \in BOOLEAN,
          table_type \in {"users", "posts", "comments"} :
           /\ call' = [fn |-> "clean_dataframe_for_db", arg |-> df,
                       table_type |-> table_type, strict |-> strict]
           /\ ret' = Returned(clean_dataframe_for_db(df, table_type, strict))
           /\ UNCHANGED <<today, raw, processed, db, pipeline>>

\* Rows of the users and posts tables, by the columns the query reads.
UserRows ==
    {[user_id |-> id, username |-> Str(Letters(n)), name |-> Str(Letters(6)),
      email_domain |-> Str(Letters(5))] : id \in 1..2, n \in 4..5}

PostRows ==
    {[post_id |-> 1, user_id |-> id, word_count |-> w, body_length |-> 10 * w] :
        id \in 1..3, w \in {1, 3}}

CallActivity ==
    /\ call = NoCall
    /\ \E users \in SeqsUpTo(UserRows, MaxRows),
          posts \in SeqsUpTo(PostRows, MaxRows) :
           /\ call' = [fn |-> "user_post_activity", users |-> users,
                       posts |-> posts]
           /\ \E frame \in user_post_activity(users, posts) :
                  ret' = Returned(frame)
           /\ UNCHANGED <<today, raw, processed, db, pipeline>>

InitDirect == Init /\ today = 1

\* The data types process_data is called with.
DataTypes == {"users", "posts", "comments", "todos"}

\* A raw file of a kind: missing, or left by an earlier extraction with
\* the empty array or with records.
Contents == {"missing", "empty", "records"}

RawFile(kind, content) ==
    LET bodies == IF kind = "users" THEN UsersResponses ELSE PostsResponses
    IN  IF content = "missing" THEN NoFile
        ELSE IF content = "empty" THEN File(0, 0, << >>)
        ELSE File(0, 0, CHOOSE body \in bodies : body # << >>)

CallProcess ==
    /\ call = NoCall
    /\ \E kind \in Kinds, data_type \in DataTypes, writeDate \in WriteDates,
          saveOk \in BOOLEAN :
           LET r == process_data(raw, processed, TransformerRoot(cwd), kind,
                                 data_type, today, writeDate, saveOk)
           IN  /\ call' = [fn |-> "process_data", kind |-> kind,
                           data_type |-> data_type]
               /\ ret' = IF r.exc # "none" THEN Raised(r.exc)
                         ELSE Returned(r.df)
               /\ processed' = r.processed
               /\ today' = IF r.exc \in {"none", "OSError", "ArrowException"}
                           THEN writeDate ELSE today
               /\ UNCHANGED <<raw, db, pipeline>>

\* The raw files of the transformer's directory are there or not.
InitProcess ==
    /\ today \in Dates
    /\ cwd = "repo"
    /\ run = 0
    /\ mode = "full"
    /\ pc = "exit"
    /\ \E content \in [Dates \X Kinds -> Contents] :
           raw = [p \in Paths |->
                     IF p[1] = TransformerRoot("repo")
                     THEN RawFile(p[3], content[<<p[2], p[3]>>])
                     ELSE NoFile]
    /\ processed = [p \in Paths |-> NoFile]
    /\ db = [t \in Roots \X Kinds |-> NoFile]
    /\ results = Empty
    /\ pipeline_results = Empty
    /\ raised = "none"
    /\ log = Empty
    /\ requests = Empty
    /\ reads = Empty
    /\ report = Empty
    /\ lastLoad = [k \in Kinds |-> NoLoad]
    /\ call = NoCall
    /\ ret = Empty

NextProcess ==
    \/ CallProcess
    \/ Tick

SpecProcess == InitProcess /\ [][NextProcess]_vars

NextDirect ==
    \/ CallTransformPosts
    \/ CallTransformUsers
    \/ CallClean
    \/ CallActivity

SpecDirect == InitDirect /\ [][NextDirect]_vars

----------------------------------------------------------------------------
\* Properties.


IsPrefix(s, t) == Len(s) <= Len(t) /\ \A i \in 1..Len(s) : s[i] = t[i]

Last(s) == s[Len(s)]

Running == pc # "exit"

FullRun == run > 0 /\ mode = "full"

\* The stage whose method was entered last by this invocation.
CurrentStage == IF log = Empty THEN "none" ELSE Last(log)

\* The results of the load stage of this invocation, as far as it got.
LoadResults ==
    IF FullRun /\ "load" \in DOMAIN pipeline_results.stages
    THEN pipeline_results.stages.load
    ELSE IF CurrentStage = "load" THEN results ELSE Empty

LoadStageOver == "load" \in Range(log) /\ pc \notin {"load_users", "load_posts"}

\* The lookups of this invocation in an area for a kind.
Lookups(area, kind) ==
    {i \in 1..Len(reads) : reads[i].area = area /\ reads[i].path[3] = kind}

HasError(entry) == "error" \in DOMAIN entry

Other(kind) == IF kind = "users" THEN "posts" ELSE "users"

\* C1: run_full_pipeline starts the stages only in the order extract,
\* transform, load, analytics, each at most once; once a stage has raised,
\* the run has ended with that exception and no later stage was started.
C1_StagesInOrder ==
    FullRun =>
        /\ IsPrefix(log, STAGES)
        /\ raised # "none" =>
               /\ ~Running
               /\ pipeline_results.error = raised
               /\ Last(log) \notin DOMAIN pipeline_results.stages
        /\ (~Running /\ raised = "none") => log = STAGES

C1_Witness ==
    /\ FullRun
    /\ log = <<"extract", "transform">>
    /\ raised = "KeyError"

\* C2: a storage write failure in the load stage of a full run ends the run
\* as a failed run, and the analytics stage is never started.
StorageFailure(entry) == HasError(entry) /\ entry.error = "OperationalError"

C2_StorageFailureAborts ==
    (FullRun /\ \E k \in DOMAIN LoadResults : StorageFailure(LoadResults[k])) =>
        /\ "analytics" \notin Range(log)
        /\ pc \notin {"load_posts", "analytics"}
        /\ ~Running => raised # "none"

\* C3: when load_all_data finds no processed file for a kind, it does not
\* raise; that kind's result is a zero count with an error, and the other
\* kind is still looked up and loaded, its result, when it carries no error,
\* being the row count committed to its table.
C3_MissingFileTolerated ==
    \A k \in Kinds : \A i \in Lookups("processed", k) :
        ~reads[i].file.exists =>
            /\ k \in DOMAIN LoadResults
            /\ LoadResults[k].count = 0
            /\ HasError(LoadResults[k])
            /\ CurrentStage = "load" => raised = "none"
            /\ LoadStageOver =>
                   /\ Other(k) \in DOMAIN LoadResults
                   /\ Lookups("processed", Other(k)) # {}
                   /\ \A j \in Lookups("processed", Other(k)) :
                          ~HasError(LoadResults[Other(k)]) =>
                              /\ Len(db[<<LoaderRoot, Other(k)>>].rows)
                                     = Len(reads[j].file.rows)
                              /\ LoadResults[Other(k)].count
                                     = Len(db[<<LoaderRoot, Other(k)>>].rows)

C3_Witness ==
    /\ LoadStageOver
    /\ \E i \in Lookups("processed", "users") : ~reads[i].file.exists
    /\ ~HasError(LoadResults["posts"])
    /\ LoadResults["posts"].count = 2

\* C4: when a stage fails during run_full_pipeline, the run record holds
\* start time, end time, duration, success = false and the error, and its
\* per-stage results are those of exactly the stages completed before the
\* failing one.
C4_FailureRecorded ==
    (FullRun /\ raised # "none") =>
        /\ {"start_time", "end_time", "duration_seconds", "success", "error"}
               \subseteq DOMAIN pipeline_results
        /\ pipeline_results.success = FALSE
        /\ pipeline_results.error = raised
        /\ pipeline_results.start_time <= pipeline_results.end_time
        /\ pipeline_results.end_time <= today
        /\ pipeline_results.duration_seconds
               = pipeline_results.end_time - pipeline_results.start_time
        /\ DOMAIN pipeline_results.stages
               = {STAGES[i] : i \in 1..Len(log) - 1}

C4_Witness ==
    /\ FullRun
    /\ raised = "OSError"
    /\ log = STAGES
    /\ DOMAIN pipeline_results.stages = {"extract", "transform", "load"}

\* C5: in a full run every stage consumes the on-disk output the previous
\* stage of the same run wrote: each snapshot file transform or load looks up
\* is there and was written by this run.
C5_ConsumesOwnRunOutput ==
    FullRun =>
        \A i \in 1..Len(reads) :
            reads[i].file.exists /\ reads[i].file.run = run

\* C6: after any outcome of the extract stage (of the transform stage), no
\* date partition holds the users file of this run without the posts file
\* of this run.
ExtractOver ==
    "extract" \in Range(log) /\ pc \notin {"extract_users", "extract_posts"}

TransformOver ==
    "transform" \in Range(log)
        /\ pc \notin {"transform_users", "transform_posts"}

C6_SnapshotWholesale ==
    /\ ExtractOver =>
           \A d \in Dates :
               raw[<<ExtractorRoot, d, "users">>].run = run
                   => raw[<<ExtractorRoot, d, "posts">>].run = run
    /\ TransformOver =>
           \A d \in Dates :
               processed[<<TransformerRoot(cwd), d, "users">>].run = run
                   => processed[<<TransformerRoot(cwd), d, "posts">>].run = run

\* C7: after a load of a kind that reports no error, the table holds as many
\* rows as the processed snapshot that was consumed, and the count reported
\* in the load result is the table's row count.
C7_RowCountCommitted ==
    \A k \in DOMAIN LoadResults : \A i \in Lookups("processed", k) :
        ~HasError(LoadResults[k]) =>
            /\ reads[i].file.exists
            /\ Len(db[<<LoaderRoot, k>>].rows) = Len(reads[i].file.rows)
            /\ LoadResults[k].count = Len(db[<<LoaderRoot, k>>].rows)

C7_Witness ==
    /\ run = 2
    /\ "users" \in DOMAIN LoadResults
    /\ ~HasError(LoadResults["users"])
    /\ LoadResults["users"].count = 2
    /\ lastLoad["users"].times = 2

\* C8: a load that commits the rows the previous load of the table committed
\* leaves the table with the same rows (full replace, never append).
C8_LoadIdempotent ==
    [][\A k \in Kinds :
          (/\ lastLoad[k].times > 0
           /\ lastLoad'[k].times > 0
           /\ reads' # reads
           /\ reads' # Empty
           /\ Last(reads').area = "processed"
           /\ Last(reads').path[3] = k
           /\ lastLoad'[k].snapshot.rows = lastLoad[k].snapshot.rows)
          => db'[<<LoaderRoot, k>>].rows = db[<<LoaderRoot, k>>].rows]_vars

C8_Witness ==
    /\ lastLoad["posts"].times = 2
    /\ Len(lastLoad["posts"].snapshot.rows) = 2
    /\ db[<<LoaderRoot, "posts">>].rows
           = clean_dataframe_for_db(lastLoad["posts"].snapshot.rows, "posts",
                                    TRUE)

\* C9: the report of generate_report has an entry for each of the three
\* queries; the entry of a failed query holds an error, no data and
\* record_count 0, every other entry holds a result of its query over the
\* tables, and generate_report does not raise.
C9_QueryFailureContained ==
    report # Empty =>
        /\ DOMAIN report = Range(QueryNames)
        /\ raised \in {"none", "OSError"}
        /\ \A name \in DOMAIN report :
               IF HasError(report[name])
               THEN report[name].data = << >> /\ report[name].record_count = 0
               ELSE /\ report[name].data
                        \in QueryResults(name, db, AnalyticsRoot(cwd))
                    /\ report[name].record_count = Len(report[name].data)

C9_Witness ==
    /\ report # Empty
    /\ HasError(report["user_statistics"])
    /\ ~HasError(report["post_statistics"])
    /\ report["post_statistics"].data[1].total_posts = 2
    /\ ~HasError(report["user_post_activity"])
    /\ Len(report["user_post_activity"].data) = 2

\* C10: within one extract stage each endpoint is requested at most once;
\* when the request of /users fails, no raw file is written by this run,
\* /posts is not requested, and the failure leaves the stage.
C10_NoRetry ==
    /\ IsPrefix([i \in 1..Len(requests) |-> requests[i].endpoint],
                <<"/users", "/posts">>)
    /\ \A i \in 1..Len(requests) :
           ~requests[i].ok =>
               /\ i = Len(requests)
               /\ raised = "RequestException"
               /\ ~Running
               /\ \A d \in Dates :
                      raw[<<ExtractorRoot, d, Endpoint2Kind(requests[i].endpoint)>>].run # run
    /\ (requests # Empty /\ ~requests[1].ok) =>
           \A d \in Dates, k \in Kinds : raw[<<ExtractorRoot, d, k>>].run # run

C10_Witness ==
    /\ requests = <<[endpoint |-> "/users", ok |-> FALSE]>>
    /\ raised = "RequestException"
    /\ run = 2
    /\ \E d \in Dates : raw[<<ExtractorRoot, d, "users">>].exists

\* C12: for every raw post record, transform_posts_data yields a
\* post_category that is one of short, medium, long, decided by the trimmed
\* body length: up to 100 short (the smallest lengths included), 101 to 200
\* medium, above 200 long.
C12_CategoryByLength ==
    (call.fn = "transform_posts_data" /\ ret.exc = "none") =>
        \A i \in 1..Len(call.arg) :
            LET n == StrLen(Strip(call.arg[i].body.text))
                category == ret.value[i].post_category.text
            IN  /\ ret.value[i].body_length = n
                /\ category \in {Word("short", 5), Word("medium", 6),
                                 Word("long", 4)}
                /\ n <= 100 => category = Word("short", 5)
                /\ (101 <= n /\ n <= 200) => category = Word("medium", 6)
                /\ n > 200 => category = Word("long", 4)

\* A coordinate of a normalized row is present when it is a float.
Present(cell) == cell.type = "float"

\* C13: in every row transform_users_data returns, lat and lng are both
\* present or both absent, and has_coordinates is true exactly when both
\* are present.
C13_CoordinatesPaired ==
    (call.fn = "transform_users_data" /\ ret.exc = "none") =>
        \A i \in 1..Len(ret.value) :
            LET row == ret.value[i]
            IN  /\ Present(row.lat) <=> Present(row.lng)
                /\ row.has_coordinates <=>
                       (Present(row.lat) /\ Present(row.lng))

\* The block of a record is missing, null or an object without the key.
Lacks(rec, block, key) ==
    \/ block \notin DOMAIN rec
    \/ rec[block].type # "dict"
    \/ key \notin DOMAIN rec[block].items

LacksCoordinate(rec, key) ==
    \/ Lacks(rec, "address", "geo")
    \/ /\ rec.address.items.geo.type = "dict"
       /\ key \notin DOMAIN rec.address.items.geo.items

\* Every "geo" of the records is an object.
GeoObjects(users_data) ==
    \A i \in 1..Len(users_data) :
        \/ Lacks(users_data[i], "address", "geo")
        \/ users_data[i].address.items.geo.type = "dict"

\* C14: transform_users_data does not raise on records whose address or
\* company block is empty or missing; the absent city, zipcode,
\* company_name and company_catchphrase are empty strings and an absent
\* lat or lng is null in the returned row.
C14_MissingBlocksTolerated ==
    (/\ call.fn = "transform_users_data"
     /\ Len(call.arg) > 0
     /\ GeoObjects(call.arg)) =>
        /\ ret.exc = "none"
        /\ \A i \in 1..Len(call.arg) :
               LET rec == call.arg[i]
                   row == ret.value[i]
               IN  /\ Lacks(rec, "address", "city") => row.city = Str(<< >>)
                   /\ Lacks(rec, "address", "zipcode") =>
                          row.zipcode = Str(<< >>)
                   /\ Lacks(rec, "company", "name") =>
                          row.company_name = Str(<< >>)
                   /\ Lacks(rec, "company", "catchPhrase") =>
                          row.company_catchphrase = Str(<< >>)
                   /\ LacksCoordinate(rec, "lat") => row.lat = Null
                   /\ LacksCoordinate(rec, "lng") => row.lng = Null

Min(a, b) == IF a <= b THEN a ELSE b

\* The length a table type declares for a column, 0 when it declares none.
Limit(table_type, col) ==
    IF col \in DOMAIN Rules(table_type) THEN Rules(table_type)[col] ELSE 0

\* Every value of the column is a string.
StringColumn(df, col) == \A i \in 1..Len(df) : df[i][col].type = "str"

Cleaned == call.fn = "clean_dataframe_for_db"

\* C16: clean_dataframe_for_db keeps the rows and their order; a value of
\* a string column with a declared length is cut to that length, and left
\* as it is when it is no longer; created_at is parsed, null when it cannot
\* be; every other column is as it was, and nothing is raised.
C16_CleanCutsToLimit ==
    Cleaned =>
        /\ ret.exc = "none"
        /\ Len(ret.value) = Len(call.arg)
        /\ \A i \in 1..Len(call.arg) :
               /\ DOMAIN ret.value[i] = DOMAIN call.arg[i]
               /\ \A col \in DOMAIN call.arg[i] :
                      LET in == call.arg[i][col]
                          out == ret.value[i][col]
                          max == Limit(call.table_type, col)
                      IN  IF col = "created_at"
                          THEN out.type \in {"datetime", "null"}
                               /\ (out.type = "datetime" => out.text = in.text)
                               /\ (in.type = "str" /\ in.text # isoformat =>
                                       out = Null)
                          ELSE IF max > 0 /\ StringColumn(call.arg, col)
                          THEN /\ out.type = "str"
                               /\ StrLen(out.text) =
                                      Min(StrLen(in.text), max)
                               /\ out.text = Take(in.text, StrLen(out.text))
                               /\ StrLen(in.text) <= max => out = in
                          ELSE max = 0 => out = in

\* A title longer than its limit was cut and a created_at that is no
\* timestamp became null.
C16_Witness ==
    /\ Cleaned
    /\ \E i \in 1..Len(call.arg) :
           /\ call.arg[i].title.type = "str"
           /\ StrLen(call.arg[i].title.text) > 500
           /\ StrLen(ret.value[i].title.text) = 500
    /\ \E i \in 1..Len(call.arg) :
           /\ call.arg[i].created_at = Str(Letters(3))
           /\ ret.value[i].created_at = Null

Activity == call.fn = "user_post_activity"

\* No two rows of the users table have the same user_id.
DistinctIds(users) ==
    \A i, j \in 1..Len(users) : users[i].user_id = users[j].user_id => i = j

\* The frame has a row for every user row, the posts of the user counted
\* and null aggregates where there are none, by post_count descending.
RowPerUser ==
    /\ Len(ret.value) = Len(call.users)
    /\ \A i \in 1..Len(call.users) :
           \E k \in 1..Len(ret.value) :
               LET n == Cardinality({j \in 1..Len(call.posts) :
                            call.posts[j].user_id = call.users[i].user_id})
               IN  /\ GroupKey(ret.value[k]) = GroupKey(call.users[i])
                   /\ ret.value[k].post_count = n
                   /\ n = 0 => /\ ret.value[k].avg_post_length = NullAgg
                               /\ ret.value[k].max_post_length = NullAgg
    /\ \A k \in 1..Len(ret.value) - 1 :
           ret.value[k].post_count >= ret.value[k + 1].post_count

UnknownType ==
    call = NoCall /\ call'.fn = "process_data" /\ call'.data_type \notin Kinds

\* C11: for a data type other than users and posts, process_data writes no
\* processed file and raises ValueError when the dated raw file is there,
\* FileNotFoundError when it is not.
C11_UnknownTypeRejected ==
    [][UnknownType =>
         /\ processed' = processed
         /\ ret'.exc =
                IF raw[<<TransformerRoot(cwd), today, call'.kind>>].exists
                THEN "ValueError" ELSE "FileNotFoundError"]_vars

\* The claim as it is stated: ValueError for every such data type.
C11_AlwaysValueError ==
    [][UnknownType =>
         processed' = processed /\ ret'.exc = "ValueError"]_vars

\* A call for comments over a raw file that is there was rejected.
C11_Witness ==
    /\ call.fn = "process_data"
    /\ call.data_type = "comments"
    /\ ret.exc = "ValueError"
    /\ \A p \in Paths : ~processed[p].exists

\* run_full_pipeline has returned its record with success = True.
Succeeded ==
    /\ FullRun
    /\ ~Running
    /\ "success" \in DOMAIN pipeline_results
    /\ pipeline_results.success

\* C17: when run_full_pipeline returns success = True, the four stages
\* have completed in this run, no load result carries an error, and the
\* tables analytics queries hold the rows of this run's extraction.
C17_SuccessIsComplete ==
    Succeeded =>
        /\ DOMAIN pipeline_results.stages = Range(STAGES)
        /\ \A k \in Kinds : ~HasError(pipeline_results.stages.load[k])
        /\ \A k \in Kinds :
               /\ Table(db, AnalyticsRoot(cwd), k).exists
               /\ Table(db, AnalyticsRoot(cwd), k).origin = run

\* The step of load_all_data for a kind whose processed file is missing.
MissingFileStep(k) ==
    /\ pc = (IF k = "users" THEN "load_users" ELSE "load_posts")
    /\ pc' # pc
    /\ ~processed[<<LoaderRoot, today, k>>].exists

\* C18: when load_all_data finds no processed file for a kind, the table
\* of that kind is left as it was, a table that was not there being
\* created empty, and the count reported for the kind is zero.
C18_MissingFileLeavesTable ==
    [][\A k \in Kinds :
         MissingFileStep(k) =>
             /\ db[<<LoaderRoot, k>>].exists =>
                    db'[<<LoaderRoot, k>>] = db[<<LoaderRoot, k>>]
             /\ db'[<<LoaderRoot, k>>].rows = db[<<LoaderRoot, k>>].rows
             /\ results'[k].count = 0
             /\ HasError(results'[k])]_vars

\* A zero count is reported for a kind whose file was missing while its
\* table holds the rows of an earlier load.
C18_Witness ==
    \E k \in Kinds :
        /\ CurrentStage = "load"
        /\ k \in DOMAIN results
        /\ results[k].count = 0
        /\ results[k].error = "FileNotFoundError"
        /\ Len(db[<<LoaderRoot, k>>].rows) = 2

====
